---- MODULE Spec2Model ----
(***************************************************************************)
(* Model of examples/code_editor.py: the CodeEditor application, a         *)
(* directory tree paired with one TextArea.  The state is the attributes   *)
(* of the CodeEditor instance and of its TextArea, the files below the     *)
(* browsed directory, and a record of what the last event handlers did.    *)
(* Each handler runs to completion before the next event is dispatched,    *)
(* so each handler is one action.                                          *)
(***************************************************************************)
EXTENDS Naturals, Sequences, FiniteSets, TLC

(***************************************************************************)
(* Bounds.                                                                 *)
(***************************************************************************)
\* Texts are TextOf(0) .. TextOf(MaxText).
MaxText == 1

\* No save runs once this many writes were completed or announced.
MaxWrites == 2

\* Python's None.  No path and no text of the model is this string.
None == "None"

\* The directory handed to CodeEditor(path).
file_path == "proj"

\* The files the DirectoryTree below file_path can report as selected.
Paths == {"proj/main.py", "proj/util.c", "proj/notes"}

\* pathlib.Path.name: the final component of the path.
name(p) ==
    CASE p = "proj/main.py" -> "main.py"
      [] p = "proj/util.c"  -> "util.c"
      [] p = "proj/notes"   -> "notes"

\* The text a file or the buffer can hold: the empty text, a shell script,
\* and further texts that differ from both.
TextOf(i) ==
    IF i = 0 THEN ""
    ELSE IF i = 1 THEN "#!/bin/bash"
    ELSE "text" \o ToString(i)

Texts == {TextOf(i) : i \in 0..MaxText}

\* textual.widgets.text_area.BUILTIN_LANGUAGES, the supported languages
\* (the members the lexers of this model can name).
BUILTIN_LANGUAGES == {"python", "bash"}

\* rich.syntax.Syntax.guess_lexer(path, code): the lexer is found from the
\* file name, and from the text when the name decides nothing; "default"
\* when neither does.
guess_lexer(path, code) ==
    CASE name(path) = "main.py" -> "python"
      [] name(path) = "util.c"  -> "c"
      [] OTHER -> IF code = "#!/bin/bash" THEN "bash" ELSE "default"

\* The names guess_lexer can return.
Lexers == {"python", "c", "bash", "default"}

VARIABLES
    selected_file,   \* self.selected_file: None or a path
    file_content,    \* self.file_content: None or a text
    sub_title,       \* self.sub_title
    display,         \* self.text_area.display
    language,        \* self.text_area.language: None or a language name
    text,            \* self.text_area.text
    show_tree,       \* self.show_tree
    classes,         \* the style classes of the app
    disk,            \* the text of every file on disk
    readable,        \* whether read_text() of a file succeeds
    io,              \* per file, the text the app last read from or wrote to it
    opened,          \* the path of the last selection whose read succeeded
    hist,            \* what the last three handlers did, most recent first
    n_writes,        \* how many disk writes were completed so far
    n_saved          \* how many "File Saved" notifications were posted so far

vars == <<selected_file, file_content, sub_title, display, language, text,
          show_tree, classes, disk, readable, io, opened, hist,
          n_writes, n_saved>>

app == <<selected_file, file_content, sub_title, display, language, text,
         show_tree, classes>>

\* One notification, as self.notify(message, title, severity) posts it.
\* The severity defaults to "information".
Notification(message, title, severity) ==
    [message |-> message, title |-> title, severity |-> severity]

\* One handler run: the handler, its argument, whether an exception left
\* it, the text it read from disk (None when it read none), the
\* notifications it posted and the disk writes it completed.
Event(op, arg, raised, read, notified, wrote) ==
    [op |-> op, arg |-> arg, raised |-> raised, read |-> read,
     notified |-> notified, wrote |-> wrote]

\* hist holds the last three handler runs; before the first events it
\* holds NoEvent in their place.
NoEvent == Event("none", None, FALSE, None, <<>>, <<>>)

\* How many of the notifications ns have the title "File Saved".
Saved(ns) == Cardinality({i \in 1..Len(ns) : ns[i].title = "File Saved"})

\* The handler run e enters hist, and its writes and "File Saved"
\* notifications are counted.
record(e) ==
    /\ hist' = <<e, hist[1], hist[2]>>
    /\ n_writes' = n_writes + Len(e.wrote)
    /\ n_saved' = n_saved + Saved(e.notified)

\* A completed disk write.
Write(path, t) == [path |-> path, text |-> t]

TypeOK ==
    /\ selected_file \in Paths \cup {None}
    /\ file_content \in Texts \cup {None}
    /\ sub_title \in Paths \cup {file_path, "ERROR"}
    /\ display \in BOOLEAN
    /\ language \in BUILTIN_LANGUAGES \cup {None}
    /\ text \in Texts
    /\ show_tree \in BOOLEAN
    /\ classes \subseteq {"-show-tree"}
    /\ disk \in [Paths -> Texts]
    /\ readable \in [Paths -> BOOLEAN]
    /\ io \in [Paths -> Texts \cup {None}]
    /\ opened \in Paths \cup {None}
    /\ Len(hist) = 3
    /\ n_writes \in 0..MaxWrites
    /\ n_saved \in 0..MaxWrites

(***************************************************************************)
(* CodeEditor.__init__, followed by the mount of the app: show_tree is a   *)
(* var(True) whose watcher runs when the app is mounted.                   *)
(***************************************************************************)
Init ==
    /\ selected_file = None
    /\ file_content = None
    /\ sub_title = file_path
    /\ display = FALSE
    /\ language = None
    /\ text = ""
    /\ show_tree = TRUE
    /\ classes = {"-show-tree"}
    /\ disk \in [Paths -> Texts]
    /\ readable \in [Paths -> BOOLEAN]
    /\ io = [p \in Paths |-> None]
    /\ opened = None
    /\ hist = <<NoEvent, NoEvent, NoEvent>>
    /\ n_writes = 0
    /\ n_saved = 0

(***************************************************************************)
(* TextArea.load_text(text): the buffer holds the given text.              *)
(***************************************************************************)
load_text(t) == text' = t

\* load_text_area where an unsupported lexer leaves the language as it was.
load_text_area_KeepsLanguage(t, path) ==
    LET lexer == guess_lexer(path, t) IN
    /\ load_text(file_content')
    /\ language' = IF lexer \in BUILTIN_LANGUAGES THEN lexer ELSE language

\* load_text_area that sets the language and loads no text.
load_text_area_NoLoad(t, path) ==
    LET lexer == guess_lexer(path, t) IN
    /\ text' = text
    /\ language' = IF lexer \in BUILTIN_LANGUAGES THEN lexer ELSE None

(***************************************************************************)
(* CodeEditor.load_text_area(text, file_path).  The buffer is loaded from  *)
(* self.file_content, which the caller has just assigned.                  *)
(***************************************************************************)
load_text_area(t, path) ==
    LET lexer == guess_lexer(path, t) IN
    /\ load_text(file_content')
    /\ language' = IF lexer \in BUILTIN_LANGUAGES THEN lexer ELSE None

\* The try body without the assignment of text_area.display.
read_returned_Hidden(path) ==
    /\ selected_file' = path
    /\ sub_title' = path
    /\ file_content' = disk[path]
    /\ display' = display
    /\ load_text_area(file_content', selected_file')
    /\ io' = [io EXCEPT ![path] = disk[path]]
    /\ opened' = path
    /\ record(Event("select", path, FALSE, disk[path], <<>>, <<>>))
    /\ UNCHANGED <<show_tree, classes, disk, readable>>

\* The try body and else clause that load the buffer only when the
\* selected path is not the open file.
read_returned_SkipsOpenFile(path) ==
    /\ selected_file' = path
    /\ sub_title' = path
    /\ file_content' = disk[path]
    /\ display' = TRUE
    /\ IF path = selected_file
       THEN UNCHANGED <<text, language>>
       ELSE load_text_area(file_content', selected_file')
    /\ io' = [io EXCEPT ![path] = disk[path]]
    /\ opened' = path
    /\ record(Event("select", path, FALSE, disk[path], <<>>, <<>>))
    /\ UNCHANGED <<show_tree, classes, disk, readable>>

(***************************************************************************)
(* on_directory_tree_file_selected when read_text() returns: the           *)
(* assignments before the try, the try body and the else clause.           *)
(***************************************************************************)
read_returned(path) ==
    /\ selected_file' = path
    /\ sub_title' = path
    /\ file_content' = disk[path]
    /\ display' = TRUE
    /\ load_text_area(file_content', selected_file')
    /\ io' = [io EXCEPT ![path] = disk[path]]
    /\ opened' = path
    /\ record(Event("select", path, FALSE, disk[path], <<>>, <<>>))
    /\ UNCHANGED <<show_tree, classes, disk, readable>>

\* The except clause without the reset of the language.
read_raised_KeepsLanguage(path) ==
    /\ sub_title' = "ERROR"
    /\ display' = FALSE
    /\ selected_file' = None
    /\ record(Event("select", path, FALSE, None,
                    <<Notification(name(path) \o " could not be loaded",
                                   "File Error", "error")>>,
                    <<>>))
    /\ UNCHANGED <<file_content, text, language, show_tree, classes, disk,
                   readable, io, opened>>

\* The except clause without the reset of selected_file, which then keeps
\* the path assigned before the try.
read_raised_KeepsSelection(path) ==
    /\ sub_title' = "ERROR"
    /\ display' = FALSE
    /\ language' = None
    /\ selected_file' = path
    /\ record(Event("select", path, FALSE, None,
                    <<Notification(name(path) \o " could not be loaded",
                                   "File Error", "error")>>,
                    <<>>))
    /\ UNCHANGED <<file_content, text, show_tree, classes, disk, readable,
                   io, opened>>

\* The except clause without the assignment of text_area.display.
read_raised_StaysVisible(path) ==
    /\ sub_title' = "ERROR"
    /\ display' = display
    /\ language' = None
    /\ selected_file' = None
    /\ record(Event("select", path, FALSE, None,
                    <<Notification(name(path) \o " could not be loaded",
                                   "File Error", "error")>>,
                    <<>>))
    /\ UNCHANGED <<file_content, text, show_tree, classes, disk, readable,
                   io, opened>>

\* The except clause without the "ERROR" marker: the subtitle keeps the
\* path assigned before the try.
read_raised_NoMarker(path) ==
    /\ sub_title' = path
    /\ display' = FALSE
    /\ language' = None
    /\ selected_file' = None
    /\ record(Event("select", path, FALSE, None,
                    <<Notification(name(path) \o " could not be loaded",
                                   "File Error", "error")>>,
                    <<>>))
    /\ UNCHANGED <<file_content, text, show_tree, classes, disk, readable,
                   io, opened>>

\* The except clause with file_content reset to None as well.
read_raised_ClearsContent(path) ==
    /\ sub_title' = "ERROR"
    /\ display' = FALSE
    /\ language' = None
    /\ selected_file' = None
    /\ file_content' = None
    /\ record(Event("select", path, FALSE, None,
                    <<Notification(name(path) \o " could not be loaded",
                                   "File Error", "error")>>,
                    <<>>))
    /\ UNCHANGED <<text, show_tree, classes, disk, readable, io, opened>>

(***************************************************************************)
(* on_directory_tree_file_selected when read_text() raises: the            *)
(* assignments before the try, overwritten by the except clause.           *)
(* self.file_content is not assigned.                                      *)
(***************************************************************************)
read_raised(path) ==
    /\ sub_title' = "ERROR"
    /\ display' = FALSE
    /\ language' = None
    /\ selected_file' = None
    /\ record(Event("select", path, FALSE, None,
                    <<Notification(name(path) \o " could not be loaded",
                                   "File Error", "error")>>,
                    <<>>))
    /\ UNCHANGED <<file_content, text, show_tree, classes, disk, readable,
                   io, opened>>

(***************************************************************************)
(* CodeEditor.on_directory_tree_file_selected(event), event.path = path.   *)
(***************************************************************************)
on_directory_tree_file_selected(path) ==
    IF readable[path] THEN read_returned(path) ELSE read_raised(path)

FileSelected == \E path \in Paths : on_directory_tree_file_selected(path)

(***************************************************************************)
(* The user types in the TextArea: the buffer text becomes another text.   *)
(* The TextArea takes input only while it is displayed.                    *)
(***************************************************************************)
Edit ==
    /\ display
    /\ \E t \in Texts \ {text} :
          /\ text' = t
          /\ record(Event("edit", t, FALSE, None, <<>>, <<>>))
    /\ UNCHANGED <<selected_file, file_content, sub_title, display, language,
                   show_tree, classes, disk, readable, io, opened>>

\* watch_show_tree that adds the class whatever the value.
watch_show_tree_AlwaysAdds(value) ==
    classes' = classes \cup {"-show-tree"}

(***************************************************************************)
(* CodeEditor.watch_show_tree(show_tree): set_class(show_tree, "-show-tree")*)
(***************************************************************************)
watch_show_tree(value) ==
    classes' = IF value THEN classes \cup {"-show-tree"}
               ELSE classes \ {"-show-tree"}

\* The calls of watch_show_tree that the assignment show_tree = value
\* makes, as the sequence of their arguments: one call when the value
\* changes.
watched(value) == IF value # show_tree THEN <<value>> ELSE <<>>

(***************************************************************************)
(* The assignment self.show_tree = value of the reactive attribute: the    *)
(* flag is set and, when it changed, its watcher runs before the           *)
(* assignment returns.                                                     *)
(***************************************************************************)
set_show_tree(value) ==
    /\ show_tree' = value
    /\ IF watched(value) # <<>>
       THEN watch_show_tree(value)
       ELSE classes' = classes

(***************************************************************************)
(* CodeEditor.action_toggle_files().  The event holds, as its argument,    *)
(* the calls of the watcher.                                               *)
(***************************************************************************)
action_toggle_files ==
    /\ set_show_tree(~show_tree)
    /\ record(Event("toggle", watched(~show_tree), FALSE, None, <<>>, <<>>))
    /\ UNCHANGED <<selected_file, file_content, sub_title, display, language,
                   text, disk, readable, io, opened>>

\* action_save that leaves file_content as it was after the write.
action_save_KeepsBaseline(written) ==
    IF selected_file # None /\ text # file_content
    THEN IF written
         THEN /\ disk' = [disk EXCEPT ![selected_file] = text]
              /\ io' = [io EXCEPT ![selected_file] = text]
              /\ record(Event("save", None, FALSE, None,
                              <<Notification(selected_file, "File Saved",
                                             "information")>>,
                              <<Write(selected_file, text)>>))
              /\ UNCHANGED <<app, readable, opened>>
         ELSE /\ record(Event("save", None, TRUE, None, <<>>, <<>>))
              /\ UNCHANGED <<app, disk, readable, io, opened>>
    ELSE /\ written
         /\ record(Event("save", None, FALSE, None, <<>>, <<>>))
         /\ UNCHANGED <<app, disk, readable, io, opened>>

\* action_save without the test of self.selected_file.
action_save_Unguarded(written) ==
    IF text # file_content
    THEN IF written
         THEN /\ disk' = [p \in Paths |->
                            IF p = selected_file THEN text ELSE disk[p]]
              /\ io' = [p \in Paths |->
                            IF p = selected_file THEN text ELSE io[p]]
              /\ file_content' = text
              /\ record(Event("save", None, FALSE, None,
                              <<Notification(selected_file, "File Saved",
                                             "information")>>,
                              <<Write(selected_file, text)>>))
              /\ UNCHANGED <<selected_file, sub_title, display, language, text,
                             show_tree, classes, readable, opened>>
         ELSE /\ record(Event("save", None, TRUE, None, <<>>, <<>>))
              /\ UNCHANGED <<app, disk, readable, io, opened>>
    ELSE /\ written
         /\ record(Event("save", None, FALSE, None, <<>>, <<>>))
         /\ UNCHANGED <<app, disk, readable, io, opened>>

\* action_save without the comparison of the buffer with file_content.
action_save_AlwaysWrites(written) ==
    IF selected_file # None
    THEN IF written
         THEN /\ disk' = [disk EXCEPT ![selected_file] = text]
              /\ io' = [io EXCEPT ![selected_file] = text]
              /\ file_content' = text
              /\ record(Event("save", None, FALSE, None,
                              <<Notification(selected_file, "File Saved",
                                             "information")>>,
                              <<Write(selected_file, text)>>))
              /\ UNCHANGED <<selected_file, sub_title, display, language, text,
                             show_tree, classes, readable, opened>>
         ELSE /\ record(Event("save", None, TRUE, None, <<>>, <<>>))
              /\ UNCHANGED <<app, disk, readable, io, opened>>
    ELSE /\ written
         /\ record(Event("save", None, FALSE, None, <<>>, <<>>))
         /\ UNCHANGED <<app, disk, readable, io, opened>>

\* action_save that assigns file_content before it calls write_text().
action_save_BaselineFirst(written) ==
    IF selected_file # None /\ text # file_content
    THEN IF written
         THEN /\ disk' = [disk EXCEPT ![selected_file] = text]
              /\ io' = [io EXCEPT ![selected_file] = text]
              /\ file_content' = text
              /\ record(Event("save", None, FALSE, None,
                              <<Notification(selected_file, "File Saved",
                                             "information")>>,
                              <<Write(selected_file, text)>>))
              /\ UNCHANGED <<selected_file, sub_title, display, language, text,
                             show_tree, classes, readable, opened>>
         ELSE /\ file_content' = text
              /\ record(Event("save", None, TRUE, None, <<>>, <<>>))
              /\ UNCHANGED <<selected_file, sub_title, display, language, text,
                             show_tree, classes, disk, readable, io, opened>>
    ELSE /\ written
         /\ record(Event("save", None, FALSE, None, <<>>, <<>>))
         /\ UNCHANGED <<app, disk, readable, io, opened>>

\* action_save that posts the notification before it calls write_text().
action_save_NotifiesFirst(written) ==
    IF selected_file # None /\ text # file_content
    THEN IF written
         THEN /\ disk' = [disk EXCEPT ![selected_file] = text]
              /\ io' = [io EXCEPT ![selected_file] = text]
              /\ file_content' = text
              /\ record(Event("save", None, FALSE, None,
                              <<Notification(selected_file, "File Saved",
                                             "information")>>,
                              <<Write(selected_file, text)>>))
              /\ UNCHANGED <<selected_file, sub_title, display, language, text,
                             show_tree, classes, readable, opened>>
         ELSE /\ record(Event("save", None, TRUE, None,
                              <<Notification(selected_file, "File Saved",
                                             "information")>>,
                              <<>>))
              /\ UNCHANGED <<app, disk, readable, io, opened>>
    ELSE /\ written
         /\ record(Event("save", None, FALSE, None, <<>>, <<>>))
         /\ UNCHANGED <<app, disk, readable, io, opened>>

\* action_save that also resets the language of the buffer after the write.
action_save_ResetsLanguage(written) ==
    IF selected_file # None /\ text # file_content
    THEN IF written
         THEN /\ disk' = [disk EXCEPT ![selected_file] = text]
              /\ io' = [io EXCEPT ![selected_file] = text]
              /\ file_content' = text
              /\ language' = None
              /\ record(Event("save", None, FALSE, None,
                              <<Notification(selected_file, "File Saved",
                                             "information")>>,
                              <<Write(selected_file, text)>>))
              /\ UNCHANGED <<selected_file, sub_title, display, text,
                             show_tree, classes, readable, opened>>
         ELSE /\ record(Event("save", None, TRUE, None, <<>>, <<>>))
              /\ UNCHANGED <<app, disk, readable, io, opened>>
    ELSE /\ written
         /\ record(Event("save", None, FALSE, None, <<>>, <<>>))
         /\ UNCHANGED <<app, disk, readable, io, opened>>

\* action_save without the notification.
action_save_Silent(written) ==
    IF selected_file # None /\ text # file_content
    THEN IF written
         THEN /\ disk' = [disk EXCEPT ![selected_file] = text]
              /\ io' = [io EXCEPT ![selected_file] = text]
              /\ file_content' = text
              /\ record(Event("save", None, FALSE, None, <<>>,
                              <<Write(selected_file, text)>>))
              /\ UNCHANGED <<selected_file, sub_title, display, language, text,
                             show_tree, classes, readable, opened>>
         ELSE /\ record(Event("save", None, TRUE, None, <<>>, <<>>))
              /\ UNCHANGED <<app, disk, readable, io, opened>>
    ELSE /\ written
         /\ record(Event("save", None, FALSE, None, <<>>, <<>>))
         /\ UNCHANGED <<app, disk, readable, io, opened>>

(***************************************************************************)
(* CodeEditor.action_save().  written says whether write_text() returns;   *)
(* when it raises instead, nothing was written and the exception leaves    *)
(* action_save at that statement.                                          *)
(***************************************************************************)
action_save(written) ==
    IF selected_file # None /\ text # file_content
    THEN IF written
         THEN /\ disk' = [disk EXCEPT ![selected_file] = text]
              /\ file_content' = text
              /\ io' = [io EXCEPT ![selected_file] = text]
              /\ record(Event("save", None, FALSE, None,
                              <<Notification(selected_file, "File Saved",
                                             "information")>>,
                              <<Write(selected_file, text)>>))
              /\ UNCHANGED <<selected_file, sub_title, display, language, text,
                             show_tree, classes, readable, opened>>
         ELSE /\ record(Event("save", None, TRUE, None, <<>>, <<>>))
              /\ UNCHANGED <<app, disk, readable, io, opened>>
    ELSE \* write_text() is not reached, so it cannot raise
         /\ written
         /\ record(Event("save", None, FALSE, None, <<>>, <<>>))
         /\ UNCHANGED <<app, disk, readable, io, opened>>

\* The runs of save are cut off after MaxWrites writes or announcements.
UnderCap == n_writes < MaxWrites /\ n_saved < MaxWrites

\* ctrl+s, and write_text() returns (or is not reached).
Save == UnderCap /\ action_save(TRUE)

\* ctrl+s, and write_text() raises.
SaveWriteFails == UnderCap /\ action_save(FALSE)

Next ==
    \/ FileSelected
    \/ Edit
    \/ action_toggle_files
    \/ Save
    \/ SaveWriteFails

Spec == Init /\ [][Next]_vars

(***************************************************************************)
(* The handler run that a step is, and the one that led to a state.        *)
(***************************************************************************)
last == hist[1]

Ran(op) == last.op = op

Selected == Ran("select") /\ readable[last.arg]

SelectFailed == Ran("select") /\ ~readable[last.arg]

\* The step is a run of handler op.
Runs(op) == hist'[1].op = op

\* C1: after handle_selection(path) on a file whose read succeeds,
\* SelectedFile is path, LoadedContent is the file's text, the buffer is
\* visible and the buffer holds the file's text.
C1_SelectLoads ==
    Selected =>
        /\ selected_file = last.arg
        /\ file_content = disk[last.arg]
        /\ last.read = disk[last.arg]
        /\ display
        /\ text = disk[last.arg]

\* A readable file was selected while another file was open with edits.
C1_Witness ==
    /\ Selected
    /\ hist[2].op = "edit"
    /\ hist[3].op = "select" /\ readable[hist[3].arg]
    /\ hist[3].arg # last.arg
    /\ text # hist[2].arg
    /\ text = disk[last.arg]

\* C2: handle_selection(path) on a file whose read fails returns without
\* raising, with SelectedFile absent, the buffer hidden, its language none,
\* and exactly one notification posted by the call: severity "error",
\* title "File Error", the message naming the file.
C2_SelectFailureResets ==
    SelectFailed =>
        /\ ~last.raised
        /\ selected_file = None
        /\ ~display
        /\ language = None
        /\ last.notified =
              <<Notification(name(last.arg) \o " could not be loaded",
                             "File Error", "error")>>

\* The failed selection followed the load of a file with a supported language.
C2_Witness ==
    /\ SelectFailed
    /\ hist[2].op = "select" /\ readable[hist[2].arg]
    /\ guess_lexer(hist[2].arg, hist[2].read) \in BUILTIN_LANGUAGES
    /\ Len(last.notified) = 1

\* C3 as stated: after a failed handle_selection SelectedFile is absent and
\* LoadedContent holds no text.
C3_FailureClearsBoth ==
    SelectFailed => selected_file = None /\ file_content = None

\* C3: a failed handle_selection clears SelectedFile and leaves
\* LoadedContent as it was before the call.
C3_FailureKeepsContent ==
    [][ (Runs("select") /\ ~readable[hist'[1].arg]) =>
            selected_file' = None /\ file_content' = file_content ]_vars

\* A failed selection after a file was loaded: its content is still held.
C3_Witness ==
    /\ SelectFailed
    /\ selected_file = None
    /\ file_content \in Texts
    /\ opened # None
    /\ file_content = io[opened]

\* The writes and the notifications of the i-th last handler run.
Wrote(i) == hist[i].wrote

Notified(i) == hist[i].notified

\* C4: handle_selection(F) on content C, then the buffer changed to C2 # C,
\* then a save() whose write succeeds: F holds C2 on disk, LoadedContent is
\* C2, and the save posted exactly one notification, titled "File Saved",
\* whose message is F's path.
C4_EditThenSave ==
    ( /\ hist[1].op = "save" /\ ~hist[1].raised
      /\ hist[2].op = "edit"
      /\ hist[3].op = "select" /\ readable[hist[3].arg]
      /\ hist[2].arg # hist[3].read )
    => LET F == hist[3].arg
           C2 == hist[2].arg
       IN /\ disk[F] = C2
          /\ file_content = C2
          /\ Wrote(1) = <<Write(F, C2)>>
          /\ Len(Notified(1)) = 1
          /\ Notified(1)[1].title = "File Saved"
          /\ Notified(1)[1].message = F

\* Select, edit, save, and the save has written the edited text.
C4_Witness ==
    /\ hist[1].op = "save" /\ ~hist[1].raised
    /\ hist[2].op = "edit"
    /\ hist[3].op = "select" /\ readable[hist[3].arg]
    /\ hist[2].arg # hist[3].read
    /\ disk[hist[3].arg] = hist[2].arg
    /\ Wrote(1) # <<>>

\* C5: save() while no file is selected writes nothing to disk and posts no
\* notification, whatever the buffer and LoadedContent hold.
C5_SaveWithoutFile ==
    [][ (selected_file = None /\ Runs("save")) =>
            /\ hist'[1].wrote = <<>>
            /\ hist'[1].notified = <<>>
            /\ ~hist'[1].raised
            /\ disk' = disk ]_vars

\* save() right after a failed selection, with a buffer that differs from
\* the content left over from the earlier load.
C5_Witness ==
    /\ hist[1].op = "save"
    /\ hist[2].op = "select" /\ ~readable[hist[2].arg]
    /\ selected_file = None
    /\ file_content \in Texts
    /\ text # file_content
    /\ Wrote(1) = <<>>

\* C6: two save() calls in succession write to disk at most once and post
\* at most one notification; when the first call returned, the second
\* writes and posts nothing, the buffer of an open file being equal to
\* LoadedContent.
C6_SaveIdempotent ==
    (hist[1].op = "save" /\ hist[2].op = "save") =>
        /\ Len(Wrote(1)) + Len(Wrote(2)) <= 1
        /\ Len(Notified(1)) + Len(Notified(2)) <= 1
        /\ ~hist[2].raised =>
              /\ Wrote(1) = <<>>
              /\ Notified(1) = <<>>
              /\ ~hist[1].raised
              /\ selected_file # None => text = file_content

\* Two saves in succession, the first of which wrote.
C6_Witness ==
    /\ hist[1].op = "save"
    /\ hist[2].op = "save"
    /\ Wrote(2) # <<>>
    /\ Wrote(1) = <<>>

\* C7: a successful handle_selection(F) followed at once by save() leaves
\* F's content on disk as it was read, writes nothing and posts no
\* notification.
C7_RoundTrip ==
    ( /\ hist[1].op = "save"
      /\ hist[2].op = "select" /\ readable[hist[2].arg] )
    => /\ ~hist[1].raised
       /\ Wrote(1) = <<>>
       /\ Notified(1) = <<>>
       /\ disk[hist[2].arg] = hist[2].read

\* Edit, select a readable file whose text is not the edited one, save.
C7_Witness ==
    /\ hist[1].op = "save"
    /\ hist[2].op = "select" /\ readable[hist[2].arg]
    /\ hist[3].op = "edit"
    /\ hist[3].arg # hist[2].read
    /\ text = hist[2].read

\* C8: while a file is selected, LoadedContent is the text the app last
\* read from or wrote to that file, which is the file's text on disk; an
\* edit of the buffer leaves LoadedContent alone, and apart from a
\* selection LoadedContent changes only in a save, to the text that save
\* wrote to the selected file.
C8_BaselineIsLastIO ==
    /\ [](selected_file # None =>
            /\ file_content = io[selected_file]
            /\ file_content = disk[selected_file])
    /\ [][ /\ Runs("edit") => file_content' = file_content
           /\ (file_content' # file_content /\ ~Runs("select")) =>
                 /\ Runs("save")
                 /\ file_content' = text
                 /\ hist'[1].wrote = <<Write(selected_file, text)>>
                 /\ disk'[selected_file] = text ]_vars

\* A file is open, edited and not saved: LoadedContent is still what is on
\* disk and not the buffer.
C8_Witness ==
    /\ Ran("edit")
    /\ selected_file # None
    /\ file_content = disk[selected_file]
    /\ text # file_content
    /\ hist[2].op = "save" /\ Wrote(2) # <<>>

\* The language load_text_area sets for a path and its text.
LanguageFor(path, t) ==
    IF guess_lexer(path, t) \in BUILTIN_LANGUAGES
    THEN guess_lexer(path, t) ELSE None

\* C9: after a successful load the buffer's language is the guessed
\* language when that is a supported one and none otherwise; in every
\* state the language is none or a supported language.
C9_LanguageFallback ==
    /\ Selected =>
          /\ guess_lexer(last.arg, last.read) \in BUILTIN_LANGUAGES
                => language = guess_lexer(last.arg, last.read)
          /\ guess_lexer(last.arg, last.read) \notin BUILTIN_LANGUAGES
                => language = None
    /\ language \in BUILTIN_LANGUAGES \cup {None}
    /\ language \notin Lexers \ BUILTIN_LANGUAGES

\* A file with an unsupported lexer was loaded right after a file with a
\* supported one.
C9_Witness ==
    /\ Selected
    /\ hist[2].op = "select" /\ readable[hist[2].arg]
    /\ guess_lexer(hist[2].arg, hist[2].read) \in BUILTIN_LANGUAGES
    /\ guess_lexer(last.arg, last.read) \notin BUILTIN_LANGUAGES
    /\ language = None

\* C10: selections, toggles and edits leave the disk alone; a file changes
\* on disk only in a save, which writes the buffer to the selected file and
\* to no other; the selected file is the path of the last selection whose
\* read succeeded.
C10_OnlySaveWritesOpenFile ==
    /\ [](selected_file # None => selected_file = opened)
    /\ [][ /\ (Runs("select") \/ Runs("toggle") \/ Runs("edit")) =>
                 disk' = disk /\ hist'[1].wrote = <<>>
           /\ \A i \in 1..Len(hist'[1].wrote) :
                 /\ Runs("save")
                 /\ selected_file \in Paths
                 /\ hist'[1].wrote[i] = Write(selected_file, text)
                 /\ selected_file = opened
           /\ \A p \in Paths : disk'[p] # disk[p] =>
                 /\ Runs("save")
                 /\ p = selected_file
                 /\ p = opened
                 /\ disk'[p] = text
                 /\ hist'[1].wrote = <<Write(p, text)>> ]_vars

\* A save wrote to the open file while another file, loaded earlier, still
\* holds on disk the text that was read from it.
C10_Witness ==
    /\ Ran("save")
    /\ Wrote(1) = <<Write(opened, text)>>
    /\ disk[opened] = text
    /\ \E p \in Paths \ {opened} : io[p] # None /\ disk[p] = io[p]

\* C11: when write_text() fails inside save(), the exception leaves save():
\* no notification is posted, nothing is written, LoadedContent and
\* SelectedFile keep their values, and the buffer still differs from
\* LoadedContent with a file selected, so that the next save() reaches
\* write_text() again.
C11_WriteFailurePropagates ==
    [][ (Runs("save") /\ hist'[1].raised) =>
            /\ selected_file # None /\ text # file_content
            /\ hist'[1].notified = <<>>
            /\ hist'[1].wrote = <<>>
            /\ file_content' = file_content
            /\ selected_file' = selected_file
            /\ selected_file' # None /\ text' # file_content' ]_vars

\* A save whose write failed, and the next save, which wrote the buffer.
C11_Witness ==
    /\ hist[1].op = "save" /\ ~hist[1].raised
    /\ hist[2].op = "save" /\ hist[2].raised
    /\ Notified(2) = <<>>
    /\ Wrote(1) = <<Write(selected_file, text)>>

\* The controller and buffer state that a successful selection of path,
\* read with text t, ends in.
LoadedState(path, t) ==
    [selected_file |-> path, file_content |-> t, text |-> t,
     display |-> TRUE, language |-> LanguageFor(path, t)]

\* C12: the state after a successful handle_selection is a function of the
\* path and of the text read: SelectedFile, LoadedContent, buffer text,
\* visibility and language are the same whatever the state before the call.
C12_SelectionDeterministic ==
    Selected =>
        [selected_file |-> selected_file, file_content |-> file_content,
         text |-> text, display |-> display, language |-> language]
          = LoadedState(last.arg, last.read)

\* The open file was selected again while it had unsaved edits and another
\* language than the first load left.
C12_Witness ==
    /\ Selected
    /\ hist[2].op = "edit"
    /\ hist[3].op = "save" /\ Wrote(3) # <<>>
    /\ opened = last.arg
    /\ hist[2].arg # last.read
    /\ text = last.read

\* C13: save() leaves SelectedFile, the buffer text, visibility and
\* language and the subtitle as they are; it changes LoadedContent only
\* when it wrote, and a save that finds the buffer equal to LoadedContent
\* changes nothing.
C13_SaveFrame ==
    [][ Runs("save") =>
            /\ UNCHANGED <<selected_file, text, display, language, sub_title,
                           show_tree, classes>>
            /\ hist'[1].wrote = <<>> =>
                  file_content' = file_content /\ disk' = disk
            /\ text = file_content =>
                  /\ UNCHANGED <<app, disk>>
                  /\ hist'[1].notified = <<>>
                  /\ hist'[1].wrote = <<>> ]_vars

\* A save wrote the buffer of a file that has a language.
C13_Witness ==
    /\ Ran("save")
    /\ Wrote(1) # <<>>
    /\ language # None
    /\ file_content = text
    /\ sub_title = selected_file

\* C15: the buffer is displayed exactly when a file is selected.
C15_VisibleIffSelected ==
    display <=> selected_file # None

\* A failed selection hid the buffer of the file that was open.
C15_Witness ==
    /\ SelectFailed
    /\ hist[2].op = "select" /\ readable[hist[2].arg]
    /\ ~display
    /\ selected_file = None

\* C17: while a file is selected the subtitle is its path; a failed
\* selection leaves the subtitle "ERROR"; only a selection changes the
\* subtitle.
C17_SubtitleTracksSelection ==
    /\ [](selected_file # None => sub_title = selected_file)
    /\ [](SelectFailed => sub_title = "ERROR")
    /\ [][ ~Runs("select") => sub_title' = sub_title ]_vars

\* A failed selection, then a save and a toggle: the subtitle is still
\* "ERROR".
C17_Witness ==
    /\ hist[3].op = "select" /\ ~readable[hist[3].arg]
    /\ hist[2].op = "save"
    /\ hist[1].op = "toggle"
    /\ sub_title = "ERROR"

\* C14: toggle_tree_visibility() flips show_tree and runs the watcher once,
\* after which the class "-show-tree" is present exactly when the flag is
\* true; SelectedFile, LoadedContent, the buffer and the disk are left
\* alone; after two toggles in succession the flag and the class are what
\* they were before the first.
C14_ToggleFlipsAndStyles ==
    /\ [][ Runs("toggle") =>
              /\ show_tree' = ~show_tree
              /\ hist'[1].arg = <<show_tree'>>
              /\ ("-show-tree" \in classes') <=> show_tree'
              /\ UNCHANGED <<selected_file, file_content, text, display,
                             language, sub_title, disk>>
              /\ hist'[1].wrote = <<>> /\ hist'[1].notified = <<>>
              /\ Ran("toggle") =>
                    /\ show_tree' = ~hist[1].arg[1]
                    /\ ("-show-tree" \in classes') <=> ~hist[1].arg[1] ]_vars
    /\ []( ("-show-tree" \in classes) <=> show_tree )

\* Two toggles in succession while a file with edits is open: the tree is
\* shown again.
C14_Witness ==
    /\ hist[1].op = "toggle" /\ hist[2].op = "toggle"
    /\ hist[3].op = "edit"
    /\ hist[2].arg = <<FALSE>> /\ hist[1].arg = <<TRUE>>
    /\ show_tree /\ "-show-tree" \in classes
    /\ text # file_content

\* C16: save() reaches write_text() exactly when a file is selected and the
\* buffer differs from LoadedContent, and the write it completes is that
\* of the buffer to the selected file; at every moment as many "File
\* Saved" notifications were posted as disk writes were completed.
C16_WritesMatchNotifications ==
    /\ [](n_saved = n_writes)
    /\ [][ Runs("save") =>
              /\ (hist'[1].wrote # <<>> \/ hist'[1].raised)
                    <=> (selected_file # None /\ text # file_content)
              /\ hist'[1].wrote # <<>> =>
                    hist'[1].wrote = <<Write(selected_file, text)>>
              /\ n_writes' = n_writes + Len(hist'[1].wrote)
              /\ n_saved' = n_saved + Len(hist'[1].notified) ]_vars
    /\ [][ ~Runs("save") =>
              n_writes' = n_writes /\ n_saved' = n_saved ]_vars

\* Two writes were completed and announced, the second by the save that
\* followed a save whose write failed.
C16_Witness ==
    /\ n_writes = 2 /\ n_saved = 2
    /\ hist[1].op = "save" /\ Wrote(1) # <<>>
    /\ hist[2].op = "save" /\ hist[2].raised
    /\ hist[3].op = "edit"

====
